---- MODULE Spec2Model ----
(***************************************************************************)
(* Index validations of the datamodel validation pipeline                  *)
(* (validation_pipeline/validations/indexes.rs).                           *)
(*                                                                         *)
(* The ten validation functions are modelled as operators that take the    *)
(* parser database, one index walker and the diagnostics sink, and return  *)
(* the sink after the call.  The host pipeline, which calls them for every *)
(* index of the schema, is the state machine.                              *)
(***************************************************************************)
EXTENDS Integers, Sequences, FiniteSets, TLC

VARIABLES
    preview_features,   \* db.preview_features: the enabled preview features
    capabilities,       \* capabilities of db.active_connector()
    indexes,            \* the index declarations of the schema, in order
    diagnostics,        \* the Diagnostics sink: a sequence of errors
    cur,                \* position of the index being validated
    pc,                 \* the next validation to call on indexes[cur]
    run                 \* number of the pass over the schema

vars == <<preview_features, capabilities, indexes, diagnostics, cur, pc, run>>

---------------------------------------------------------------------------
(* Bounds of the model *)

\* longest field list of a declaration in Spec
MaxFields == 2
\* longest field list of a declaration in SpecFulltext
MaxFulltextFields == 3
\* longest field list of a declaration in SpecBundle
MaxBundleFields == 5
\* most declarations in a schema of SpecSchema and SpecTwice
MaxIndexes == 2
\* most passes over the same schema in SpecTwice
MaxRuns == 2

---------------------------------------------------------------------------
(* Values *)

\* Option<T>: the empty sequence is None, a one-element sequence is Some(v)
None == << >>
Some(v) == <<v>>
is_some(o) == o # None
unwrap_or(o, d) == IF is_some(o) THEN o[1] ELSE d

PreviewFeatureSet == {"ExtendedIndexes", "FullTextIndex"}

ConnectorCapabilitySet ==
    {"IndexColumnLengthPrefixing", "UsingHashIndex", "FullTextIndex",
     "SortOrderInFullTextIndex"}

IndexAlgorithmSet == {"BTree", "Hash"}
IndexTypeSet == {"index", "unique", "fulltext"}
Models == {1, 2}
ConstraintNames == {"idx_a", "idx_b"}

\* Spans: of a named argument of an attribute, of a whole attribute, of a
\* model, and the empty span
ArgumentSpan(id, arg) == [level |-> "argument", arg |-> arg, id |-> id]
AttributeSpan(id) == [level |-> "attribute", arg |-> "", id |-> id]
ModelSpan(model) == [level |-> "model", arg |-> "", id |-> model]
SpanEmpty == [level |-> "empty", arg |-> "", id |-> 0]

\* DatamodelError::new_attribute_validation_error(message, attribute, span)
new_attribute_validation_error(message, attribute, span) ==
    [attribute |-> attribute, message |-> message, span |-> span]

push_error(sink, error) == Append(sink, error)

\* The message texts (without the backquotes around the names in them)
MsgUniqueName ==
    "The given constraint name has to be unique in the following namespace. Please provide a different name using the map argument."
MsgExtendedParams ==
    "You must enable extendedIndexes preview feature to use sort or length parameters."
MsgLengthUnsupported ==
    "The length argument is not supported in an index definition with the current connector"
MsgTypeUnsupported ==
    "The given type argument is not supported with the current connector"
MsgFulltextPreview ==
    "You must enable fullTextIndex preview feature to be able to define a @@fulltext index."
MsgFulltextUnsupported ==
    "Defining fulltext indexes is not supported with the current connector."
MsgTypePreview ==
    "You must enable extendedIndexes preview feature to be able to define the index type."
MsgFulltextLength ==
    "The length argument is not supported in a @@fulltext attribute."
MsgFulltextSort ==
    "The sort argument is not supported in a @@fulltext attribute in the current connector."
MsgBundled ==
    "All index fields must be listed adjacently in the fields argument."

---------------------------------------------------------------------------
(* The parser database and the index walker, as the validations read them *)

\* the ParserDatabase the validations are handed
Db(features, caps, idxs) ==
    [preview_features |-> features, capabilities |-> caps, indexes |-> idxs]

has_capability(db, capability) == capability \in db.capabilities
preview_enabled(db, feature) == feature \in db.preview_features

final_database_name(index) == index.final_name
model_id(index) == index.model
model_name(index) == IF index.model = 1 THEN "A" ELSE "B"
ast_model_span(index) == ModelSpan(index.model)
ast_attribute(index) == index.ast_attribute
scalar_field_attributes(index) == index.fields
algorithm(index) == index.algorithm
is_fulltext(index) == index.type = "fulltext"
attribute_name(index) == index.type

span_for_argument(attribute, arg) ==
    IF arg \in attribute.arguments
    THEN Some(ArgumentSpan(attribute.id, arg))
    ELSE None

or_else(o, alternative) == IF is_some(o) THEN o ELSE alternative

\* the positions of the declarations that hold `name` in the namespace of
\* `model`
NameHolders(db, model, name) ==
    {j \in 1..Len(db.indexes) :
        /\ db.indexes[j].model = model
        /\ db.indexes[j].final_name = name}

\* db.scope_violations(model_id, name): one violation for every other
\* declaration of the same namespace scope that holds the name
scope_violations(db, model, name) ==
    LET holders == NameHolders(db, model, name)
    IN  IF holders = {}
        THEN << >>
        ELSE [k \in 1..(Cardinality(holders) - 1) |-> [scope |-> "model"]]

violation_description(violation, name) == <<"on model", name>>

---------------------------------------------------------------------------
(* The validations *)

\* the span of has_a_unique_constraint_name's errors
unique_name_span(index) ==
    IF is_some(ast_attribute(index))
    THEN LET a == ast_attribute(index)[1]
             from_arg == or_else(span_for_argument(a, "map"),
                                 span_for_argument(a, "name"))
         IN  unwrap_or(from_arg, a.span)
    ELSE ast_model_span(index)

RECURSIVE push_violations(_, _, _, _)
push_violations(index, violations, k, sink) ==
    IF k > Len(violations)
    THEN sink
    ELSE LET message == <<MsgUniqueName, final_database_name(index)>>
                            \o violation_description(violations[k],
                                                     model_name(index))
         IN  push_violations(index, violations, k + 1,
                 push_error(sink,
                     new_attribute_validation_error(
                         message, attribute_name(index),
                         unique_name_span(index))))

\* a variant that reports only declarations with an attribute of their own
has_a_unique_constraint_name_attribute_only(db, index, sink) ==
    IF is_some(ast_attribute(index))
    THEN push_violations(index,
             scope_violations(db, model_id(index),
                              final_database_name(index)),
             1, sink)
    ELSE sink

has_a_unique_constraint_name(db, index, sink) ==
    push_violations(index,
        scope_violations(db, model_id(index), final_database_name(index)),
        1, sink)

\* index.ast_attribute().map(|i| i.span).unwrap_or_else(Span::empty)
attribute_span_or_empty(index) ==
    IF is_some(ast_attribute(index))
    THEN ast_attribute(index)[1].span
    ELSE SpanEmpty

\* index.ast_attribute().map(|i| i.span)
\*      .unwrap_or_else(|| index.model().ast_model().span)
attribute_span_or_model(index) ==
    IF is_some(ast_attribute(index))
    THEN ast_attribute(index)[1].span
    ELSE ast_model_span(index)

\* index.ast_attribute().and_then(|i| i.span_for_argument("type"))
\*      .unwrap_or_else(Span::empty)
type_argument_span_or_empty(index) ==
    IF is_some(ast_attribute(index))
    THEN unwrap_or(span_for_argument(ast_attribute(index)[1], "type"),
                   SpanEmpty)
    ELSE SpanEmpty

any_sort_or_length(index) ==
    \E k \in DOMAIN scalar_field_attributes(index) :
        \/ is_some(scalar_field_attributes(index)[k].sort_order)
        \/ is_some(scalar_field_attributes(index)[k].length)

any_length(index) ==
    \E k \in DOMAIN scalar_field_attributes(index) :
        is_some(scalar_field_attributes(index)[k].length)

any_sort_order(index) ==
    \E k \in DOMAIN scalar_field_attributes(index) :
        is_some(scalar_field_attributes(index)[k].sort_order)

\* a variant that looks at the length only
uses_length_or_sort_without_preview_flag_length_only(db, index, sink) ==
    IF preview_enabled(db, "ExtendedIndexes")
    THEN sink
    ELSE IF any_length(index)
         THEN push_error(sink,
                  new_attribute_validation_error(
                      <<MsgExtendedParams>>, attribute_name(index),
                      attribute_span_or_empty(index)))
         ELSE sink

uses_length_or_sort_without_preview_flag(db, index, sink) ==
    IF preview_enabled(db, "ExtendedIndexes")
    THEN sink
    ELSE IF any_sort_or_length(index)
         THEN push_error(sink,
                  new_attribute_validation_error(
                      <<MsgExtendedParams>>, attribute_name(index),
                      attribute_span_or_empty(index)))
         ELSE sink

field_length_prefix_supported(db, index, sink) ==
    IF has_capability(db, "IndexColumnLengthPrefixing")
    THEN sink
    ELSE IF any_length(index)
         THEN push_error(sink,
                  new_attribute_validation_error(
                      <<MsgLengthUnsupported>>, attribute_name(index),
                      attribute_span_or_empty(index)))
         ELSE sink

\* a variant that tags the error with the declaration's own attribute name
index_algorithm_is_supported_own_tag(db, index, sink) ==
    IF has_capability(db, "UsingHashIndex")
    THEN sink
    ELSE IF algorithm(index) = Some("Hash")
         THEN push_error(sink,
                  new_attribute_validation_error(
                      <<MsgTypeUnsupported>>, attribute_name(index),
                      type_argument_span_or_empty(index)))
         ELSE sink

index_algorithm_is_supported(db, index, sink) ==
    IF has_capability(db, "UsingHashIndex")
    THEN sink
    ELSE IF algorithm(index) = Some("Hash")
         THEN push_error(sink,
                  new_attribute_validation_error(
                      <<MsgTypeUnsupported>>, "index",
                      type_argument_span_or_empty(index)))
         ELSE sink

\* a variant that does not report an error the sink already holds
fulltext_index_preview_feature_enabled_once(db, index, sink) ==
    LET error == new_attribute_validation_error(
                     <<MsgFulltextPreview>>, "fulltext",
                     attribute_span_or_model(index))
    IN  IF preview_enabled(db, "FullTextIndex")
        THEN sink
        ELSE IF is_fulltext(index)
                  /\ ~(\E k \in DOMAIN sink : sink[k] = error)
             THEN push_error(sink, error)
             ELSE sink

fulltext_index_preview_feature_enabled(db, index, sink) ==
    IF preview_enabled(db, "FullTextIndex")
    THEN sink
    ELSE IF is_fulltext(index)
         THEN push_error(sink,
                  new_attribute_validation_error(
                      <<MsgFulltextPreview>>, "fulltext",
                      attribute_span_or_model(index)))
         ELSE sink

\* a variant that returns when the sink already holds an error
fulltext_index_supported_first_error_only(db, index, sink) ==
    IF sink # << >> THEN sink
    ELSE IF has_capability(db, "FullTextIndex")
    THEN sink
    ELSE IF is_fulltext(index)
         THEN push_error(sink,
                  new_attribute_validation_error(
                      <<MsgFulltextUnsupported>>, "fulltext",
                      attribute_span_or_model(index)))
         ELSE sink

fulltext_index_supported(db, index, sink) ==
    IF has_capability(db, "FullTextIndex")
    THEN sink
    ELSE IF is_fulltext(index)
         THEN push_error(sink,
                  new_attribute_validation_error(
                      <<MsgFulltextUnsupported>>, "fulltext",
                      attribute_span_or_model(index)))
         ELSE sink

index_algorithm_preview_feature(db, index, sink) ==
    IF preview_enabled(db, "ExtendedIndexes")
    THEN sink
    ELSE IF is_some(algorithm(index))
         THEN push_error(sink,
                  new_attribute_validation_error(
                      <<MsgTypePreview>>, "index",
                      type_argument_span_or_empty(index)))
         ELSE sink

\* a variant without the preview feature guard
fulltext_columns_should_not_define_length_unguarded(db, index, sink) ==
    IF ~has_capability(db, "FullTextIndex") THEN sink
    ELSE IF ~is_fulltext(index) THEN sink
    ELSE IF any_length(index)
         THEN push_error(sink,
                  new_attribute_validation_error(
                      <<MsgFulltextLength>>, attribute_name(index),
                      attribute_span_or_model(index)))
         ELSE sink

fulltext_columns_should_not_define_length(db, index, sink) ==
    IF ~preview_enabled(db, "FullTextIndex") THEN sink
    ELSE IF ~has_capability(db, "FullTextIndex") THEN sink
    ELSE IF ~is_fulltext(index) THEN sink
    ELSE IF any_length(index)
         THEN push_error(sink,
                  new_attribute_validation_error(
                      <<MsgFulltextLength>>, attribute_name(index),
                      attribute_span_or_model(index)))
         ELSE sink

\* a variant without the SortOrderInFullTextIndex guard
fulltext_column_sort_is_supported_any_connector(db, index, sink) ==
    IF ~preview_enabled(db, "FullTextIndex") THEN sink
    ELSE IF ~has_capability(db, "FullTextIndex") THEN sink
    ELSE IF ~is_fulltext(index) THEN sink
    ELSE IF any_sort_order(index)
         THEN push_error(sink,
                  new_attribute_validation_error(
                      <<MsgFulltextSort>>, attribute_name(index),
                      attribute_span_or_model(index)))
         ELSE sink

fulltext_column_sort_is_supported(db, index, sink) ==
    IF ~preview_enabled(db, "FullTextIndex") THEN sink
    ELSE IF ~has_capability(db, "FullTextIndex") THEN sink
    ELSE IF ~is_fulltext(index) THEN sink
    ELSE IF has_capability(db, "SortOrderInFullTextIndex") THEN sink
    ELSE IF any_sort_order(index)
         THEN push_error(sink,
                  new_attribute_validation_error(
                      <<MsgFulltextSort>>, attribute_name(index),
                      attribute_span_or_model(index)))
         ELSE sink

\* a variant of the loop whose error arm pushes and goes on to the next field
RECURSIVE bundle_fields_no_return(_, _, _, _)
bundle_fields_no_return(index, state, k, sink) ==
    IF k > Len(scalar_field_attributes(index))
    THEN sink
    ELSE LET sorted == is_some(scalar_field_attributes(index)[k].sort_order)
         IN  CASE state \in {"Init", "SortParamHead"} /\ sorted ->
                    bundle_fields_no_return(index, "SortParamHead", k + 1,
                                            sink)
               [] state \in {"TextFieldBundle", "SortParamTail"} /\ sorted ->
                    bundle_fields_no_return(index, "SortParamTail", k + 1,
                                            sink)
               [] state \in {"Init", "SortParamHead", "TextFieldBundle"}
                        /\ ~sorted ->
                    bundle_fields_no_return(index, "TextFieldBundle", k + 1,
                                            sink)
               [] state = "SortParamTail" /\ ~sorted ->
                    bundle_fields_no_return(index, "SortParamTail", k + 1,
                        push_error(sink,
                            new_attribute_validation_error(
                                <<MsgBundled>>, "fulltext",
                                attribute_span_or_model(index))))

\* the loop over the fields of fulltext_text_columns_should_be_bundled_together:
\* `state` is the State before field k; the error arm pushes and returns
RECURSIVE bundle_fields(_, _, _, _)
bundle_fields(index, state, k, sink) ==
    IF k > Len(scalar_field_attributes(index))
    THEN sink
    ELSE LET sorted == is_some(scalar_field_attributes(index)[k].sort_order)
         IN  CASE state = "Init" /\ sorted ->
                    bundle_fields(index, "SortParamHead", k + 1, sink)
               [] state = "SortParamHead" /\ sorted ->
                    bundle_fields(index, "SortParamHead", k + 1, sink)
               [] state = "TextFieldBundle" /\ sorted ->
                    bundle_fields(index, "SortParamTail", k + 1, sink)
               [] state = "SortParamTail" /\ sorted ->
                    bundle_fields(index, "SortParamTail", k + 1, sink)
               [] state \in {"Init", "SortParamHead", "TextFieldBundle"}
                        /\ ~sorted ->
                    bundle_fields(index, "TextFieldBundle", k + 1, sink)
               [] state = "SortParamTail" /\ ~sorted ->
                    push_error(sink,
                        new_attribute_validation_error(
                            <<MsgBundled>>, "fulltext",
                            attribute_span_or_model(index)))

\* a variant without the SortOrderInFullTextIndex guard
fulltext_text_columns_should_be_bundled_together_any_connector(db, index, sink) ==
    IF ~preview_enabled(db, "FullTextIndex") THEN sink
    ELSE IF ~has_capability(db, "FullTextIndex") THEN sink
    ELSE IF ~is_fulltext(index) THEN sink
    ELSE bundle_fields(index, "Init", 1, sink)

fulltext_text_columns_should_be_bundled_together(db, index, sink) ==
    IF ~preview_enabled(db, "FullTextIndex") THEN sink
    ELSE IF ~has_capability(db, "FullTextIndex") THEN sink
    ELSE IF ~is_fulltext(index) THEN sink
    ELSE IF ~has_capability(db, "SortOrderInFullTextIndex") THEN sink
    ELSE bundle_fields(index, "Init", 1, sink)

---------------------------------------------------------------------------
(* The host pipeline: every validation, in order, on every index *)

NumRules == 10

\* the validation the host calls in place k of its fixed order
Validation(k, db, index, sink) ==
    CASE k = 1 -> has_a_unique_constraint_name(db, index, sink)
      [] k = 2 -> uses_length_or_sort_without_preview_flag(db, index, sink)
      [] k = 3 -> field_length_prefix_supported(db, index, sink)
      [] k = 4 -> index_algorithm_is_supported(db, index, sink)
      [] k = 5 -> fulltext_index_preview_feature_enabled(db, index, sink)
      [] k = 6 -> fulltext_index_supported(db, index, sink)
      [] k = 7 -> index_algorithm_preview_feature(db, index, sink)
      [] k = 8 -> fulltext_columns_should_not_define_length(db, index, sink)
      [] k = 9 -> fulltext_column_sort_is_supported(db, index, sink)
      [] k = 10 ->
            fulltext_text_columns_should_be_bundled_together(db, index, sink)

TheDb == Db(preview_features, capabilities, indexes)

PassDone == cur > Len(indexes)

\* the host is about to call validation k on the current index
At(k) == ~PassDone /\ pc = k

\* after validation k the host goes on to the next validation, or to the
\* next index after the last one
Advance(k) ==
    /\ IF k = NumRules
       THEN pc' = 1 /\ cur' = cur + 1
       ELSE pc' = k + 1 /\ cur' = cur
    /\ UNCHANGED <<preview_features, capabilities, indexes, run>>

Call_has_a_unique_constraint_name ==
    /\ At(1)
    /\ diagnostics' =
            has_a_unique_constraint_name(TheDb, indexes[cur], diagnostics)
    /\ Advance(1)

Call_uses_length_or_sort_without_preview_flag ==
    /\ At(2)
    /\ diagnostics' =
            uses_length_or_sort_without_preview_flag(TheDb, indexes[cur], diagnostics)
    /\ Advance(2)

Call_field_length_prefix_supported ==
    /\ At(3)
    /\ diagnostics' =
            field_length_prefix_supported(TheDb, indexes[cur], diagnostics)
    /\ Advance(3)

Call_index_algorithm_is_supported ==
    /\ At(4)
    /\ diagnostics' =
            index_algorithm_is_supported(TheDb, indexes[cur], diagnostics)
    /\ Advance(4)

Call_fulltext_index_preview_feature_enabled ==
    /\ At(5)
    /\ diagnostics' =
            fulltext_index_preview_feature_enabled(TheDb, indexes[cur], diagnostics)
    /\ Advance(5)

Call_fulltext_index_supported ==
    /\ At(6)
    /\ diagnostics' =
            fulltext_index_supported(TheDb, indexes[cur], diagnostics)
    /\ Advance(6)

Call_index_algorithm_preview_feature ==
    /\ At(7)
    /\ diagnostics' =
            index_algorithm_preview_feature(TheDb, indexes[cur], diagnostics)
    /\ Advance(7)

Call_fulltext_columns_should_not_define_length ==
    /\ At(8)
    /\ diagnostics' =
            fulltext_columns_should_not_define_length(TheDb, indexes[cur], diagnostics)
    /\ Advance(8)

Call_fulltext_column_sort_is_supported ==
    /\ At(9)
    /\ diagnostics' =
            fulltext_column_sort_is_supported(TheDb, indexes[cur], diagnostics)
    /\ Advance(9)

Call_fulltext_text_columns_should_be_bundled_together ==
    /\ At(10)
    /\ diagnostics' =
            fulltext_text_columns_should_be_bundled_together(TheDb, indexes[cur], diagnostics)
    /\ Advance(10)

\* the host validates the same schema once more, into the same sink
Revalidate ==
    /\ PassDone
    /\ run < MaxRuns
    /\ run' = run + 1
    /\ cur' = 1
    /\ pc' = 1
    /\ UNCHANGED <<preview_features, capabilities, indexes, diagnostics>>

Next ==
    \/ Call_has_a_unique_constraint_name
    \/ Call_uses_length_or_sort_without_preview_flag
    \/ Call_field_length_prefix_supported
    \/ Call_index_algorithm_is_supported
    \/ Call_fulltext_index_preview_feature_enabled
    \/ Call_fulltext_index_supported
    \/ Call_index_algorithm_preview_feature
    \/ Call_fulltext_columns_should_not_define_length
    \/ Call_fulltext_column_sort_is_supported
    \/ Call_fulltext_text_columns_should_be_bundled_together

NextTwice == Next \/ Revalidate

---------------------------------------------------------------------------
(* Initial states *)

SeqsUpTo(S, n) == UNION {[1..k -> S] : k \in 0..n}

\* a field reference with its optional length and sort order
FieldRefs(lengths, sorts) == [length : lengths, sort_order : sorts]

\* the declarations with the given parts; the attribute's span is set when
\* the declaration is placed in the schema
Declarations(models, names, types, algorithms, fieldLists, argumentSets, withoutAttribute) ==
    [model : models, final_name : names, type : types,
     algorithm : algorithms, fields : fieldLists,
     ast_attribute : {Some([arguments |-> a]) : a \in argumentSets}
                        \cup (IF withoutAttribute THEN {None} ELSE {})]

\* the declaration d as the index at position i of the schema
Placed(d, i) ==
    [id |-> i, model |-> d.model, final_name |-> d.final_name,
     type |-> d.type, algorithm |-> d.algorithm, fields |-> d.fields,
     ast_attribute |->
        IF is_some(d.ast_attribute)
        THEN Some([id |-> i, span |-> AttributeSpan(i),
                   arguments |-> d.ast_attribute[1].arguments])
        ELSE None]

InitWith(declarations, sizes, featureSets, capabilitySets) ==
    /\ preview_features \in featureSets
    /\ capabilities \in capabilitySets
    /\ \E n \in sizes : \E f \in [1..n -> declarations] :
            indexes = [i \in 1..n |-> Placed(f[i], i)]
    /\ diagnostics = << >>
    /\ cur = 1
    /\ pc = 1
    /\ run = 1

\* one declaration of any type and algorithm, with or without length and
\* sort order on its fields, under every configuration
Init ==
    InitWith(
        Declarations({1}, {"idx_a"}, IndexTypeSet,
                     {None} \cup {Some(a) : a \in IndexAlgorithmSet},
                     SeqsUpTo(FieldRefs({None, Some(10)},
                                        {None, Some("Asc")}), MaxFields),
                     {{}, {"type"}}, TRUE),
        {1}, SUBSET PreviewFeatureSet, SUBSET ConnectorCapabilitySet)

Spec == Init /\ [][Next]_vars

\* one declaration whose fields set a sort order or not, in every order, under
\* every configuration
InitBundle ==
    InitWith(
        Declarations({1}, {"idx_a"}, IndexTypeSet, {None},
                     SeqsUpTo(FieldRefs({None}, {None, Some("Asc")}),
                              MaxBundleFields),
                     {{}}, TRUE),
        {1}, SUBSET PreviewFeatureSet, SUBSET ConnectorCapabilitySet)

SpecBundle == InitBundle /\ [][Next]_vars

\* one @@fulltext declaration, with or without length and sort order on its
\* fields, under every configuration
InitFulltext ==
    InitWith(
        Declarations({1}, {"idx_a"}, {"fulltext"}, {None},
                     SeqsUpTo(FieldRefs({None, Some(10)},
                                        {None, Some("Asc")}),
                              MaxFulltextFields),
                     {{}}, TRUE),
        {1}, SUBSET PreviewFeatureSet, SUBSET ConnectorCapabilitySet)

SpecFulltext == InitFulltext /\ [][Next]_vars

\* the kinds of declaration of the schemas: an index with the Hash algorithm
\* and a length and a sort order on its field; a @@fulltext index whose
\* unsorted fields are apart, one with a length; a unique constraint with no
\* attribute of its own and a length on its field
SchemaShapes ==
    {[type |-> "index", algorithm |-> Some("Hash"),
      fields |-> <<[length |-> Some(10), sort_order |-> Some("Desc")]>>,
      ast_attribute |-> Some([arguments |-> {"type", "name"}])],
     [type |-> "fulltext", algorithm |-> None,
      fields |-> <<[length |-> None, sort_order |-> None],
                   [length |-> Some(10), sort_order |-> Some("Asc")],
                   [length |-> None, sort_order |-> None]>>,
      ast_attribute |-> Some([arguments |-> {"map"}])],
     [type |-> "unique", algorithm |-> None,
      fields |-> <<[length |-> Some(10), sort_order |-> None]>>,
      ast_attribute |-> None]}

SchemaDeclarations ==
    {[model |-> m, final_name |-> n, type |-> s.type,
      algorithm |-> s.algorithm, fields |-> s.fields,
      ast_attribute |-> s.ast_attribute] :
        m \in Models, n \in ConstraintNames, s \in SchemaShapes}

\* a connector with no capability, one with full-text indexes only, and one
\* with every capability
SchemaConnectors ==
    {{}, {"FullTextIndex"}, ConnectorCapabilitySet}

\* a schema of up to MaxIndexes declarations, in two models, under two names
InitSchema ==
    InitWith(SchemaDeclarations, 1..MaxIndexes, SUBSET PreviewFeatureSet,
             SchemaConnectors)

SpecSchema == InitSchema /\ [][Next]_vars

\* the same schemas, validated up to MaxRuns times into the same sink
SpecTwice == InitSchema /\ [][NextTwice]_vars

---------------------------------------------------------------------------
(* Properties *)

\* the number of errors in the sink with the given message text
Count(text) ==
    Cardinality({k \in DOMAIN diagnostics : diagnostics[k].message[1] = text})

\* the number of errors in the sink with the given attribute tag
CountTag(tag) ==
    Cardinality({k \in DOMAIN diagnostics : diagnostics[k].attribute = tag})

\* validation k has been called on the first index
Called(k) == cur > 1 \/ pc > k

Unsorted == [length |-> None, sort_order |-> None]
Sorted == [length |-> None, sort_order |-> Some("Asc")]

SetsLengthOrSort(fields) ==
    \E k \in DOMAIN fields :
        fields[k].length # None \/ fields[k].sort_order # None

\* C1: once uses_length_or_sort_without_preview_flag has run on a
\* declaration, the sink holds its error exactly when some field sets a
\* length or a sort order and the ExtendedIndexes preview feature is off,
\* whatever the connector's capabilities and the declaration's type; with no
\* length and no sort order it holds none.
C1_ExtendedParamsGate ==
    (Len(indexes) = 1 /\ Called(2)) =>
        Count(MsgExtendedParams) =
            (IF /\ SetsLengthOrSort(indexes[1].fields)
                /\ "ExtendedIndexes" \notin preview_features
             THEN 1 ELSE 0)

C1_Witness ==
    /\ PassDone
    /\ Len(indexes) = 1
    /\ indexes[1].type = "unique"
    /\ indexes[1].fields = <<[length |-> None, sort_order |-> Some("Asc")]>>
    /\ capabilities = ConnectorCapabilitySet
    /\ preview_features = {"FullTextIndex"}
    /\ Count(MsgExtendedParams) = 1

HashWithoutSupport ==
    /\ Len(indexes) = 1
    /\ indexes[1].algorithm = Some("Hash")
    /\ ~SetsLengthOrSort(indexes[1].fields)
    /\ "UsingHashIndex" \notin capabilities

\* C2, as stated: after the pass over a declaration that selects Hash, sets
\* no length or sort order and collides with no name, on a connector without
\* UsingHashIndex, exactly one error is tagged "index", whatever the preview
\* features.
C2_Original ==
    (PassDone /\ HashWithoutSupport) => CountTag("index") = 1

\* C2, amended: after that pass the sink holds exactly one "type argument
\* is not supported" error, and it is tagged "index"; the errors tagged
\* "index" are that one alone when ExtendedIndexes is on, and that one and
\* the "enable extendedIndexes to define the index type" error when it is
\* off.
C2_Amended ==
    (PassDone /\ HashWithoutSupport) =>
        /\ Count(MsgTypeUnsupported) = 1
        /\ \A k \in DOMAIN diagnostics :
                diagnostics[k].message[1] = MsgTypeUnsupported =>
                    diagnostics[k].attribute = "index"
        /\ Count(MsgTypePreview) =
                (IF "ExtendedIndexes" \in preview_features THEN 0 ELSE 1)
        /\ CountTag("index") =
                (IF "ExtendedIndexes" \in preview_features THEN 1 ELSE 2)

C2_Witness ==
    /\ PassDone
    /\ HashWithoutSupport
    /\ indexes[1].type = "unique"
    /\ preview_features = {}
    /\ CountTag("index") = 2

BundlingPreconditions ==
    /\ Len(indexes) = 1
    /\ "FullTextIndex" \in preview_features
    /\ "FullTextIndex" \in capabilities
    /\ indexes[1].type = "fulltext"
    /\ "SortOrderInFullTextIndex" \in capabilities

\* the unsorted fields form two or more separate runs
SeparateRuns(fields) ==
    \E i, j, k \in DOMAIN fields :
        /\ i < j /\ j < k
        /\ fields[i].sort_order = None
        /\ fields[j].sort_order # None
        /\ fields[k].sort_order = None

\* C3: under its four preconditions, once
\* fulltext_text_columns_should_be_bundled_together has run, the sink holds
\* exactly one "listed adjacently" error if the unsorted fields form two or
\* more separate runs and none otherwise, however many violations follow
\* the first; [sorted, sorted], [unsorted, unsorted],
\* [sorted, unsorted, sorted] and [] give none and
\* [unsorted, sorted, unsorted] gives one.
C3_Bundling ==
    (PassDone /\ BundlingPreconditions) =>
        /\ Count(MsgBundled) =
                (IF SeparateRuns(indexes[1].fields) THEN 1 ELSE 0)
        /\ indexes[1].fields \in
                {<<Sorted, Sorted>>, <<Unsorted, Unsorted>>,
                 <<Sorted, Unsorted, Sorted>>, << >>}
              => Count(MsgBundled) = 0
        /\ indexes[1].fields = <<Unsorted, Sorted, Unsorted>>
              => Count(MsgBundled) = 1

C3_Witness ==
    /\ PassDone
    /\ BundlingPreconditions
    /\ indexes[1].fields = <<Unsorted, Sorted, Unsorted, Sorted, Unsorted>>
    /\ Count(MsgBundled) = 1

\* C4: a call of has_a_unique_constraint_name on a declaration appends one
\* "has to be unique" error, naming the declaration's final name, for every
\* other declaration of the same scope with the same final name, and leaves
\* the rest of the sink as it was: at least one when there is such a
\* declaration, none when the name is only held in other scopes.
C4_UniqueConstraintName ==
    [][At(1) =>
        LET others ==
                {j \in DOMAIN indexes \ {cur} :
                    /\ indexes[j].model = indexes[cur].model
                    /\ indexes[j].final_name = indexes[cur].final_name}
        IN  /\ Len(diagnostics') = Len(diagnostics) + Cardinality(others)
            /\ SubSeq(diagnostics', 1, Len(diagnostics)) = diagnostics
            /\ \A k \in (Len(diagnostics) + 1)..Len(diagnostics') :
                    /\ diagnostics'[k].message[1] = MsgUniqueName
                    /\ diagnostics'[k].message[2] = indexes[cur].final_name
                    /\ diagnostics'[k].attribute = indexes[cur].type
    ]_vars

C4_Witness ==
    /\ Len(indexes) = 2
    /\ indexes[1].model = indexes[2].model
    /\ indexes[1].final_name = indexes[2].final_name
    /\ indexes[2].ast_attribute = None
    /\ cur = 2
    /\ pc = 2
    /\ Count(MsgUniqueName) = 2

\* C5: after the pass over a @@fulltext declaration the sink holds the
\* "enable fullTextIndex" error exactly when the FullTextIndex preview
\* feature is off and the "fulltext not supported with the current
\* connector" error exactly when the connector lacks FullTextIndex, each
\* whatever the other; and with the preview feature off it holds none of
\* the errors of the three later full-text validations, whatever the fields
\* and the capabilities.
C5_FulltextGates ==
    (PassDone /\ Len(indexes) = 1 /\ indexes[1].type = "fulltext") =>
        /\ Count(MsgFulltextPreview) =
                (IF "FullTextIndex" \in preview_features THEN 0 ELSE 1)
        /\ Count(MsgFulltextUnsupported) =
                (IF "FullTextIndex" \in capabilities THEN 0 ELSE 1)
        /\ "FullTextIndex" \notin preview_features =>
                /\ Count(MsgFulltextLength) = 0
                /\ Count(MsgFulltextSort) = 0
                /\ Count(MsgBundled) = 0

C5_Witness ==
    /\ PassDone
    /\ Len(indexes) = 1
    /\ indexes[1].type = "fulltext"
    /\ indexes[1].fields =
            <<Unsorted, [length |-> Some(10), sort_order |-> Some("Asc")],
              Unsorted>>
    /\ preview_features = {"ExtendedIndexes"}
    /\ capabilities = {"IndexColumnLengthPrefixing", "UsingHashIndex"}
    /\ Count(MsgFulltextPreview) = 1
    /\ Count(MsgFulltextUnsupported) = 1
    /\ Len(diagnostics) = 2

\* C6: when a pass over the schema ends, the sink is the output of the
\* first pass repeated once per pass: every pass appended the same errors,
\* with the same tags, messages and spans, in the same order.
C6_SamePassOutput ==
    PassDone =>
        LET n == Len(diagnostics) \div run
        IN  /\ Len(diagnostics) = n * run
            /\ \A r \in 1..(run - 1) :
                    SubSeq(diagnostics, r * n + 1, (r + 1) * n)
                        = SubSeq(diagnostics, 1, n)

C6_Witness ==
    /\ PassDone
    /\ run = 2
    /\ Len(indexes) = 2
    /\ Count(MsgUniqueName) = 4
    /\ Count(MsgFulltextPreview) = 4
    /\ Count(MsgExtendedParams) = 4

\* what the first t calls of a pass append, each validation run alone on an
\* empty sink, in the order of the calls
RECURSIVE Concatenated(_)
Concatenated(t) ==
    IF t = 0
    THEN << >>
    ELSE Concatenated(t - 1) \o
            Validation(((t - 1) % NumRules) + 1, TheDb,
                       indexes[((t - 1) \div NumRules) + 1], << >>)

\* C7: at every point of the pass the sink is the concatenation, in call
\* order, of what each validation called so far appends when run alone on
\* an empty sink, over every declaration validated so far: no error of one
\* validation or of one declaration suppresses, removes or changes another.
C7_Concatenation ==
    run = 1 =>
        diagnostics =
            Concatenated((IF PassDone THEN Len(indexes) ELSE cur - 1)
                            * NumRules + (IF PassDone THEN 0 ELSE pc - 1))

C7_Witness ==
    /\ PassDone
    /\ Len(indexes) = 2
    /\ indexes[1].type = "fulltext"
    /\ Count(MsgUniqueName) = 2
    /\ Count(MsgExtendedParams) = 2
    /\ Count(MsgFulltextLength) = 1
    /\ Count(MsgBundled) = 1
    /\ diagnostics[Len(diagnostics)].message[1] = MsgExtendedParams

\* the named arguments an error is about
OffendingArguments(text) ==
    IF text = MsgUniqueName THEN <<"map", "name">>
    ELSE IF text \in {MsgTypeUnsupported, MsgTypePreview} THEN <<"type">>
    ELSE << >>

\* the fallback chain: the first of the named arguments the attribute holds,
\* else the attribute, else the model
MostSpecificSpan(index, arguments) ==
    IF index.ast_attribute = None
    THEN ModelSpan(index.model)
    ELSE LET held == {k \in DOMAIN arguments :
                        arguments[k] \in index.ast_attribute[1].arguments}
         IN  IF held = {}
             THEN AttributeSpan(index.id)
             ELSE ArgumentSpan(index.id,
                      arguments[CHOOSE k \in held :
                                    \A l \in held : k <= l])

\* C8, as stated: every error carries the span of the offending named
\* argument, else of the attribute, else of the model, and never the empty
\* span.
C8_SpanFallbackChain ==
    Len(indexes) = 1 =>
        \A k \in DOMAIN diagnostics :
            /\ diagnostics[k].span # SpanEmpty
            /\ diagnostics[k].span =
                    MostSpecificSpan(indexes[1],
                        OffendingArguments(diagnostics[k].message[1]))

\* C9: after the pass over a declaration of any field list, the sink holds
\* no "listed adjacently" error unless the FullTextIndex preview feature is
\* on, the connector has FullTextIndex, the declaration is a @@fulltext one
\* and the connector has SortOrderInFullTextIndex.
C9_BundlingGuards ==
    (PassDone /\ Len(indexes) = 1 /\ ~BundlingPreconditions) =>
        Count(MsgBundled) = 0

C9_Witness ==
    /\ PassDone
    /\ Len(indexes) = 1
    /\ indexes[1].type = "fulltext"
    /\ indexes[1].fields = <<Unsorted, Sorted, Unsorted>>
    /\ preview_features = PreviewFeatureSet
    /\ capabilities = ConnectorCapabilitySet \ {"SortOrderInFullTextIndex"}
    /\ Count(MsgBundled) = 0

\* C10: the sink never holds both the "sort argument is not supported in a
\* @@fulltext attribute" error and the "listed adjacently" error of one
\* declaration.
C10_SortOrBundled ==
    Len(indexes) = 1 => ~(Count(MsgFulltextSort) > 0 /\ Count(MsgBundled) > 0)

C10_Witness ==
    /\ PassDone
    /\ Len(indexes) = 1
    /\ indexes[1].fields = <<Unsorted, Sorted, Unsorted>>
    /\ preview_features = PreviewFeatureSet
    /\ "FullTextIndex" \in capabilities
    /\ "SortOrderInFullTextIndex" \notin capabilities
    /\ Count(MsgFulltextSort) = 1
    /\ Count(MsgBundled) = 0

====
